---- MODULE Spec2Model ----
(***************************************************************************)
(* Visual-Pumping-Lemma: the decomposition search of PumpingEngine         *)
(* (src/pumping_engine.py) and the membership oracle it consults           *)
(* (src/utils.py, is_string_in_language).                                  *)
(*                                                                         *)
(* A Python str is a sequence of one-character strings; a dict is a        *)
(* function on its keys, the empty dict {} being the function with the     *)
(* empty domain, << >>.  A key is present iff it is in the DOMAIN.         *)
(***************************************************************************)
EXTENDS Integers, Sequences, FiniteSets, TLC

(***************************************************************************)
(* Bounds of the model.                                                    *)
(***************************************************************************)
\* Longest input string the callers hand to the engine.
MaxLen == 4

\* The alphabet of the input strings.
Alphabet == {"a", "b", "c"}

RECURSIVE StringsOfLen(_)
StringsOfLen(n) ==
    IF n = 0 THEN {<< >>}
    ELSE {Append(t, c) : t \in StringsOfLen(n - 1), c \in Alphabet}

Strings == UNION {StringsOfLen(n) : n \in 0..MaxLen}

\* Pumping lengths: negative, zero, in range, and one beyond the longest string.
PValues == (0 - 1)..(MaxLen + 1)

\* Longest string handed to the oracle called on its own.
MaxOracleLen == 6

OracleStrings == UNION {StringsOfLen(n) : n \in 0..MaxOracleLen}

\* Longest string over {a, b} handed to the CFL path in the specification of
\* its truncation, where the candidate list is cut well before its end.
MaxCflLen == 6

RECURSIVE StringsOver(_, _)
StringsOver(alphabet, n) ==
    IF n = 0 THEN {<< >>}
    ELSE {Append(t, c) : t \in StringsOver(alphabet, n - 1), c \in alphabet}

\* Those strings, the member a^4 b^4 of a^n b^n and the member a^2 b^2 c^2
\* of a^n b^n c^n.
CflStrings ==
    UNION {StringsOver({"a", "b"}, n) : n \in 0..MaxCflLen}
        \cup {<<"a", "a", "a", "a", "b", "b", "b", "b">>,
              <<"a", "a", "b", "b", "c", "c">>}

CflPValues == (0 - 1)..(MaxCflLen + 1)

(***************************************************************************)
(* Python built-ins used by the source.                                    *)
(***************************************************************************)
Min(a, b) == IF a <= b THEN a ELSE b

\* range(a, b): a, a+1, .., b-1 (empty when b <= a).
Range(a, b) == [k \in 1..(b - a) |-> a + k - 1]

\* s[i:j] for 0 <= i, 0 <= j (the only indices the source produces); j is
\* clamped to len(s) as Python does.
Slice(s, i, j) == SubSeq(s, i + 1, Min(j, Len(s)))

\* s[i:]
SliceFrom(s, i) == SubSeq(s, i + 1, Len(s))

\* s * i: i copies of s, the empty string when i <= 0.
RECURSIVE Repeat(_, _)
Repeat(s, i) == IF i <= 0 THEN << >> ELSE s \o Repeat(s, i - 1)

\* s[::-1]
Reverse(s) == [k \in 1..Len(s) |-> s[Len(s) + 1 - k]]

\* The concatenation of a sequence of lists: what a for loop that appends to
\* one list yields, given what each pass of its body appends.
RECURSIVE Flatten(_)
Flatten(ss) == IF ss = << >> THEN << >> ELSE Head(ss) \o Flatten(Tail(ss))

\* s.count(c) and len(re.findall(c, s)) for a one-character c.
CountChar(c, s) == Cardinality({k \in 1..Len(s) : s[k] = c})

\* s.startswith(t), s.endswith(t), t in s
StartsWith(s, t) == Len(t) <= Len(s) /\ SubSeq(s, 1, Len(t)) = t
EndsWith(s, t) == Len(t) <= Len(s) /\ SubSeq(s, Len(s) - Len(t) + 1, Len(s)) = t
Contains(s, t) == \E k \in 0..(Len(s) - Len(t)) : SubSeq(s, k + 1, k + Len(t)) = t

\* Every character of s[i:j] is c.
AllChar(s, i, j, c) == \A k \in (i + 1)..j : s[k] = c

(***************************************************************************)
(* The membership oracle, src/utils.py.                                    *)
(***************************************************************************)
\* Mutant: the regex is a+b+.
FullMatchAPlusBPlus(s) ==
    \E k \in 1..(Len(s) - 1) : AllChar(s, 0, k, "a") /\ AllChar(s, k, Len(s), "b")

\* Mutant: the regex is (ab)+.
FullMatchABPlus(s) ==
    /\ Len(s) > 0
    /\ Len(s) % 2 = 0
    /\ \A k \in 1..Len(s) : s[k] = (IF k % 2 = 1 THEN "a" ELSE "b")

\* re.fullmatch(r'a*b*', s)
FullMatchAStarBStar(s) ==
    \E k \in 0..Len(s) : AllChar(s, 0, k, "a") /\ AllChar(s, k, Len(s), "b")

\* re.fullmatch(r'(ab)*', s)
FullMatchABStar(s) ==
    /\ Len(s) % 2 = 0
    /\ \A k \in 1..Len(s) : s[k] = (IF k % 2 = 1 THEN "a" ELSE "b")

\* re.match(r'^(a+)b+c+$', s): the set of lengths group(1) can take; a+ is
\* followed by b+, so it takes all the leading a's and the set has at most
\* one element.
MatchAnBmCk(s) ==
    {i \in 1..Len(s) :
        \E j \in (i + 1)..(Len(s) - 1) :
            /\ AllChar(s, 0, i, "a")
            /\ AllChar(s, i, j, "b")
            /\ AllChar(s, j, Len(s), "c")}

\* Mutant: the comparison of the two counts is missing.
InAnBnNoCountCheck(s) ==
    /\ StartsWith(s, <<"a">>)
    /\ EndsWith(s, <<"b">>)
    /\ ~Contains(s, <<"b", "a">>)

\* Mutant: the 'ba' not in s test is missing.
InAnBnNoBoundaryCheck(s) ==
    LET a_count == CountChar("a", s)
        b_count == CountChar("b", s)
    IN  /\ StartsWith(s, <<"a">>)
        /\ EndsWith(s, <<"b">>)
        /\ a_count = b_count

\* The branch of "a^n b^n".
InAnBn(s) ==
    LET a_count == CountChar("a", s)
        b_count == CountChar("b", s)
    IN  /\ StartsWith(s, <<"a">>)
        /\ EndsWith(s, <<"b">>)
        /\ a_count = b_count
        /\ ~Contains(s, <<"b", "a">>)

\* Mutant: the comparison stops after the b's, any number of c's is accepted.
InAnBnCnIgnoresC(s) ==
    LET a_match == MatchAnBmCk(s)
    IN  IF a_match # {}
        THEN LET n == CHOOSE i \in a_match : TRUE
             IN  /\ Slice(s, 0, 2 * n) = Repeat(<<"a">>, n) \o Repeat(<<"b">>, n)
                 /\ AllChar(s, 2 * n, Len(s), "c")
        ELSE FALSE

\* Mutant: the match alone decides, the comparison with a^n b^n c^n is missing.
InAnBnCnShapeOnly(s) == MatchAnBmCk(s) # {}

\* The branch of "a^n b^n c^n".
InAnBnCn(s) ==
    LET a_match == MatchAnBmCk(s)
    IN  IF a_match # {}
        THEN LET n == CHOOSE i \in a_match : TRUE
             IN  s = Repeat(<<"a">>, n) \o Repeat(<<"b">>, n) \o Repeat(<<"c">>, n)
        ELSE FALSE

\* Mutant: the second half is reversed, as in the branch of "w w_reverse".
InWWComparesReversed(s) ==
    IF Len(s) % 2 = 0
    THEN LET half == Len(s) \div 2
         IN  Slice(s, 0, half) = Reverse(SliceFrom(s, half))
    ELSE FALSE

\* The branch of "ww".
InWW(s) ==
    IF Len(s) % 2 = 0
    THEN LET half == Len(s) \div 2
         IN  Slice(s, 0, half) = SliceFrom(s, half)
    ELSE FALSE

\* Mutant: the second half is not reversed, as in the branch of "ww".
InWWReverseNotReversed(s) ==
    IF Len(s) % 2 = 0
    THEN LET half == Len(s) \div 2
         IN  Slice(s, 0, half) = SliceFrom(s, half)
    ELSE FALSE

\* The branch of "w w_reverse".
InWWReverse(s) ==
    IF Len(s) % 2 = 0
    THEN LET half == Len(s) \div 2
         IN  Slice(s, 0, half) = Reverse(SliceFrom(s, half))
    ELSE FALSE

\* Mutant: the test that every character is a or b is missing.
InEvenAsAnyAlphabet(s) == CountChar("a", s) % 2 = 0

\* The branch of "(b*ab*ab*)*".
InEvenAs(s) ==
    LET a_count == CountChar("a", s)
    IN  a_count % 2 = 0 /\ \A k \in 1..Len(s) : s[k] \in {"a", "b"}

\* Mutant: the function ends with return True.
is_string_in_language_default_true(s, language_pattern) ==
    CASE language_pattern = "a^n b^n" -> InAnBn(s)
      [] language_pattern = "a^n b^m" -> FullMatchAStarBStar(s)
      [] language_pattern = "a*b*" -> FullMatchAStarBStar(s)
      [] language_pattern = "(ab)*" -> FullMatchABStar(s)
      [] language_pattern = "a^n b^n c^n" -> InAnBnCn(s)
      [] language_pattern = "ww" -> InWW(s)
      [] language_pattern = "w w_reverse" -> InWWReverse(s)
      [] language_pattern = "(b*ab*ab*)*" -> InEvenAs(s)
      [] OTHER -> TRUE

is_string_in_language(s, language_pattern) ==
    CASE language_pattern = "a^n b^n" -> InAnBn(s)
      [] language_pattern = "a^n b^m" -> FullMatchAStarBStar(s)
      [] language_pattern = "a*b*" -> FullMatchAStarBStar(s)
      [] language_pattern = "(ab)*" -> FullMatchABStar(s)
      [] language_pattern = "a^n b^n c^n" -> InAnBnCn(s)
      [] language_pattern = "ww" -> InWW(s)
      [] language_pattern = "w w_reverse" -> InWWReverse(s)
      [] language_pattern = "(b*ab*ab*)*" -> InEvenAs(s)
      [] OTHER -> FALSE

\* The eight patterns the oracle knows, and one it does not
\* (src/config.py lists "balanced_parentheses" among the predefined languages).
OraclePatterns ==
    {"a^n b^n", "a^n b^m", "a*b*", "(ab)*", "a^n b^n c^n", "ww",
     "w w_reverse", "(b*ab*ab*)*"}
Patterns == OraclePatterns \cup {"balanced_parentheses"}

\* The identifiers handed to the oracle called on its own: those, a custom
\* regex that LanguageParser.parse_language_definition passes through as the
\* pattern, and the empty string.
OracleCallPatterns == Patterns \cup {"a+b+", ""}

(***************************************************************************)
(* The decomposition generators, src/pumping_engine.py.                    *)
(***************************************************************************)
\* The f-strings of split_info, kept as their literal and formatted pieces.
RegularSplitInfo(x, y) == <<"|xy| = ", Len(x \o y), ", |y| = ", Len(y)>>
CflSplitInfo(vwx, v, x) == <<"|vwx| = ", Len(vwx), ", |vx| = ", Len(v \o x)>>

\* decompositions[:10]
CflLimit == 10

\* Mutant: z starts one character late.
RegularCandidateSkipsChar(s, p, split_point, y_length) ==
    LET x == Slice(s, 0, split_point - y_length)
        y == Slice(s, split_point - y_length, split_point)
        z == SliceFrom(s, split_point + 1)
    IN  IF Len(y) > 0 /\ Len(x \o y) <= p
        THEN << [x |-> x, y |-> y, z |-> z,
                 split_info |-> RegularSplitInfo(x, y)] >>
        ELSE << >>

\* Mutant: the filter is strict, |xy| < p.
RegularCandidateStrictFilter(s, p, split_point, y_length) ==
    LET x == Slice(s, 0, split_point - y_length)
        y == Slice(s, split_point - y_length, split_point)
        z == SliceFrom(s, split_point)
    IN  IF Len(y) > 0 /\ Len(x \o y) < p
        THEN << [x |-> x, y |-> y, z |-> z,
                 split_info |-> RegularSplitInfo(x, y)] >>
        ELSE << >>

\* The body of the innermost loop of the regular generator: the list of what
\* it appends for one (split_point, y_length).
RegularCandidate(s, p, split_point, y_length) ==
    LET x == Slice(s, 0, split_point - y_length)
        y == Slice(s, split_point - y_length, split_point)
        z == SliceFrom(s, split_point)
    IN  IF Len(y) > 0 /\ Len(x \o y) <= p
        THEN << [x |-> x, y |-> y, z |-> z,
                 split_info |-> RegularSplitInfo(x, y)] >>
        ELSE << >>

\* Mutant: the outer loop runs from min(p, n) down to 1.
GenerateRegularDescending(s, p) ==
    LET n == Len(s)
        YLengths(split_point) ==
            LET y_lengths == Range(1, split_point + 1)
            IN  Flatten([k \in DOMAIN y_lengths |->
                            RegularCandidate(s, p, split_point, y_lengths[k])])
        ascending == Range(1, Min(p, n) + 1)
        split_points == [k \in DOMAIN ascending |->
                            ascending[Len(ascending) + 1 - k]]
    IN  Flatten([k \in DOMAIN split_points |-> YLengths(split_points[k])])

_generate_regular_decompositions(s, p) ==
    LET n == Len(s)
        YLengths(split_point) ==
            LET y_lengths == Range(1, split_point + 1)
            IN  Flatten([k \in DOMAIN y_lengths |->
                            RegularCandidate(s, p, split_point, y_lengths[k])])
        split_points == Range(1, Min(p, n) + 1)
    IN  Flatten([k \in DOMAIN split_points |-> YLengths(split_points[k])])

\* The body of the innermost loop of the CFL generator, vwx being
\* s[vwx_start:vwx_end].
CflCandidate(s, vwx_start, vwx_end, v_end, x_start) ==
    LET vwx == Slice(s, vwx_start, vwx_end)
        v == Slice(vwx, 0, v_end)
        w == Slice(vwx, v_end, x_start)
        x == SliceFrom(vwx, x_start)
    IN  IF Len(v \o x) > 0
        THEN << [u |-> Slice(s, 0, vwx_start), v |-> v, w |-> w,
                 x |-> x, y |-> SliceFrom(s, vwx_end),
                 split_info |-> CflSplitInfo(vwx, v, x)] >>
        ELSE << >>

\* Mutant: v_end starts at 0, range(0, len(vwx)), so v may be empty.
CflEnumerationFromZero(s, p) ==
    LET n == Len(s)
        XStarts(vwx_start, vwx_end, v_end) ==
            LET x_starts == Range(v_end, vwx_end - vwx_start)
            IN  Flatten([k \in DOMAIN x_starts |->
                            CflCandidate(s, vwx_start, vwx_end, v_end, x_starts[k])])
        VEnds(vwx_start, vwx_end) ==
            LET v_ends == Range(0, vwx_end - vwx_start)
            IN  Flatten([k \in DOMAIN v_ends |->
                            XStarts(vwx_start, vwx_end, v_ends[k])])
        Ends(vwx_start) ==
            LET vwx_ends == Range(vwx_start + 1, Min(vwx_start + p, n) + 1)
            IN  Flatten([k \in DOMAIN vwx_ends |-> VEnds(vwx_start, vwx_ends[k])])
        vwx_starts == Range(0, n)
    IN  Flatten([k \in DOMAIN vwx_starts |-> Ends(vwx_starts[k])])

\* The list built by the four loops, before the truncation of the return;
\* len(vwx) is vwx_end - vwx_start, as vwx_end <= len(s).
CflEnumeration(s, p) ==
    LET n == Len(s)
        XStarts(vwx_start, vwx_end, v_end) ==
            LET x_starts == Range(v_end, vwx_end - vwx_start)
            IN  Flatten([k \in DOMAIN x_starts |->
                            CflCandidate(s, vwx_start, vwx_end, v_end, x_starts[k])])
        VEnds(vwx_start, vwx_end) ==
            LET v_ends == Range(1, vwx_end - vwx_start)
            IN  Flatten([k \in DOMAIN v_ends |->
                            XStarts(vwx_start, vwx_end, v_ends[k])])
        Ends(vwx_start) ==
            LET vwx_ends == Range(vwx_start + 1, Min(vwx_start + p, n) + 1)
            IN  Flatten([k \in DOMAIN vwx_ends |-> VEnds(vwx_start, vwx_ends[k])])
        vwx_starts == Range(0, n)
    IN  Flatten([k \in DOMAIN vwx_starts |-> Ends(vwx_starts[k])])

\* Mutant: the list is returned whole.
CflNoLimit(s, p) == CflEnumeration(s, p)

\* Mutant: the slice keeps the last ten, decompositions[-10:].
CflLastTen(s, p) ==
    LET all == CflEnumeration(s, p)
    IN  SubSeq(all, IF Len(all) > CflLimit THEN Len(all) - CflLimit + 1 ELSE 1,
               Len(all))

_generate_cfl_decompositions(s, p) == Slice(CflEnumeration(s, p), 0, CflLimit)

(***************************************************************************)
(* The state: one engine, one call in progress.                            *)
(***************************************************************************)
VARIABLES
    pc,               \* "idle", "loop" (at the head of the for loop), "done"
    op,               \* the function being run, "" when idle
    language_pattern, \* the arguments of the call
    input_string,
    p,
    decompositions,   \* the candidate list the generator returned
    next_index,       \* 1-based position of the for loop in decompositions
    result,           \* the result dict; the value returned once pc = "done"
    self_results,     \* PumpingEngine.results
    generator_calls,  \* calls of a generator in the running call, itself included
    oracle_calls,     \* calls of is_string_in_language in the running call,
                      \* itself included
    examined,         \* candidates whose loop body the running call has run
    suspended,        \* the locals of a second call, not running at the moment
    preempted         \* the running call was suspended inside its for loop

vars ==
    <<pc, op, language_pattern, input_string, p, decompositions, next_index,
      result, self_results, generator_calls, oracle_calls, examined,
      suspended, preempted>>

\* Mutant: the last repetition count is 4.
RegularCountsUpToFour == <<0, 1, 2, 3, 4>>

\* Mutant: only i = 0 and i = 1 are tested.
RegularCountsShort == <<0, 1>>

\* The repetition counts of the two inner loops.
RegularCounts == <<0, 1, 2, 3, 5>>
CflCounts == <<0, 1, 2, 3>>

\* The f-string of the error message.
ErrorText(n, pp) ==
    <<"String length (", n, ") is less than pumping length (", pp, ")">>

\* Mutant: the length check off by one.
RegularTooShortOrEqual(n, pp) == n <= pp

\* if n < p, in each of the two functions.
RegularTooShort(n, pp) == n < pp
CflTooShort(n, pp) == n < pp

\* Mutant: the result starts with the failing label.
NewResultNotRegular(s, pp) ==
    [string |-> s, pumping_length |-> pp, decomposition |-> << >>,
     iterations |-> << >>, lemma_holds |-> FALSE,
     language_type |-> "Not Regular"]

NewResult(s, pp) ==
    [string |-> s, pumping_length |-> pp, decomposition |-> << >>,
     iterations |-> << >>, lemma_holds |-> FALSE, language_type |-> "Unknown"]

\* result["error"] = ...
WithError(res, text) == res @@ ("error" :> text)

\* Mutant: the inner loop breaks at the first non-member.
RegularIterationsStopAtFailure(decomp, pattern) ==
    LET Record(i) ==
            LET pumped_string == decomp.x \o Repeat(decomp.y, i) \o decomp.z
            IN  [i |-> i,
                 pumped_string |-> pumped_string,
                 in_language |-> is_string_in_language(pumped_string, pattern),
                 parts |-> [x |-> decomp.x, y |-> decomp.y, z |-> decomp.z,
                            y_repetitions |-> i]]
        failures == {k \in DOMAIN RegularCounts :
                        ~Record(RegularCounts[k]).in_language}
        last == IF failures = {} THEN Len(RegularCounts)
                ELSE CHOOSE k \in failures : \A j \in failures : k <= j
    IN  [k \in 1..last |-> Record(RegularCounts[k])]

\* The inner loop of the regular path: one record per repetition count.
RegularIterations(decomp, pattern) ==
    [k \in DOMAIN RegularCounts |->
        LET i == RegularCounts[k]
            pumped_string == decomp.x \o Repeat(decomp.y, i) \o decomp.z
        IN  [i |-> i,
             pumped_string |-> pumped_string,
             in_language |-> is_string_in_language(pumped_string, pattern),
             parts |-> [x |-> decomp.x, y |-> decomp.y, z |-> decomp.z,
                        y_repetitions |-> i]]]

\* The inner loop of the CFL path.
CflIterations(decomp, pattern) ==
    [k \in DOMAIN CflCounts |->
        LET i == CflCounts[k]
            pumped_string ==
                decomp.u \o Repeat(decomp.v, i) \o decomp.w
                         \o Repeat(decomp.x, i) \o decomp.y
        IN  [i |-> i,
             pumped_string |-> pumped_string,
             in_language |-> is_string_in_language(pumped_string, pattern),
             parts |-> [u |-> decomp.u, v |-> decomp.v, w |-> decomp.w,
                        x |-> decomp.x, y |-> decomp.y,
                        v_repetitions |-> i, x_repetitions |-> i]]]

\* Mutant: the flag starts False and is set by any member.
ValidForAllIAny(iterations) ==
    \E k \in DOMAIN iterations : iterations[k].in_language

\* valid_for_all_i after the inner loop: cleared by any non-member.
ValidForAllI(iterations) ==
    \A k \in DOMAIN iterations : iterations[k].in_language

\* Mutant: the break after a success is missing.
StoreRegularNoBreak(res, decomp, iterations, valid_for_all_i) ==
    IF valid_for_all_i
    THEN [result |-> [res EXCEPT !.decomposition = decomp,
                                 !.iterations = iterations,
                                 !.lemma_holds = TRUE,
                                 !.language_type = "Possibly Regular"],
          break |-> FALSE]
    ELSE IF res.iterations = << >>
    THEN [result |-> [res EXCEPT !.decomposition = decomp,
                                 !.iterations = iterations,
                                 !.lemma_holds = FALSE,
                                 !.language_type = "Not Regular"],
          break |-> FALSE]
    ELSE [result |-> res, break |-> FALSE]

\* Mutant: every failing candidate replaces the stored one.
StoreRegularLastFailure(res, decomp, iterations, valid_for_all_i) ==
    [result |-> [res EXCEPT !.decomposition = decomp,
                            !.iterations = iterations,
                            !.lemma_holds = valid_for_all_i,
                            !.language_type =
                                IF valid_for_all_i THEN "Possibly Regular"
                                ELSE "Not Regular"],
     break |-> valid_for_all_i]

\* The if/else that ends the body of the for loop: the result afterwards and
\* whether the loop breaks.
StoreRegular(res, decomp, iterations, valid_for_all_i) ==
    IF valid_for_all_i
    THEN [result |-> [res EXCEPT !.decomposition = decomp,
                                 !.iterations = iterations,
                                 !.lemma_holds = TRUE,
                                 !.language_type = "Possibly Regular"],
          break |-> TRUE]
    ELSE IF res.iterations = << >>
    THEN [result |-> [res EXCEPT !.decomposition = decomp,
                                 !.iterations = iterations,
                                 !.lemma_holds = FALSE,
                                 !.language_type = "Not Regular"],
          break |-> FALSE]
    ELSE [result |-> res, break |-> FALSE]

\* Mutant: the "store only the first" test guards the success branch too, so
\* a success after a failure keeps the failing candidate's records.
StoreCflKeepsFirst(res, decomp, iterations, valid_for_all_i) ==
    LET kept == IF res.iterations = << >>
                THEN [res EXCEPT !.decomposition = decomp,
                                 !.iterations = iterations]
                ELSE res
    IN  [result |-> [kept EXCEPT !.lemma_holds = valid_for_all_i,
                                 !.language_type =
                                     IF valid_for_all_i
                                     THEN "Possibly Context-Free"
                                     ELSE "Not Context-Free"],
         break |-> valid_for_all_i]

StoreCfl(res, decomp, iterations, valid_for_all_i) ==
    IF valid_for_all_i
    THEN [result |-> [res EXCEPT !.decomposition = decomp,
                                 !.iterations = iterations,
                                 !.lemma_holds = TRUE,
                                 !.language_type = "Possibly Context-Free"],
          break |-> TRUE]
    ELSE IF res.iterations = << >>
    THEN [result |-> [res EXCEPT !.decomposition = decomp,
                                 !.iterations = iterations,
                                 !.lemma_holds = FALSE,
                                 !.language_type = "Not Context-Free"],
          break |-> FALSE]
    ELSE [result |-> res, break |-> FALSE]

(***************************************************************************)
(* The locals of a call that has not started: what the slot of the second  *)
(* call holds until a call is made in it.                                  *)
(***************************************************************************)
NoCall ==
    [pc |-> "idle", op |-> "", language_pattern |-> "", input_string |-> << >>,
     p |-> 0, decompositions |-> << >>, next_index |-> 1, result |-> << >>,
     generator_calls |-> 0, oracle_calls |-> 0, examined |-> 0,
     preempted |-> FALSE]

(***************************************************************************)
(* Init: the engine after PumpingEngine(), no call in progress.            *)
(***************************************************************************)
Init ==
    /\ pc = "idle"
    /\ op = ""
    /\ language_pattern = ""
    /\ input_string = << >>
    /\ p = 0
    /\ decompositions = << >>
    /\ next_index = 1
    /\ result = << >>
    /\ self_results = << >>
    /\ generator_calls = 0
    /\ oracle_calls = 0
    /\ examined = 0
    /\ suspended = NoCall
    /\ preempted = FALSE

\* What a call sets on entry, whatever it does next.
Enter(name, pattern, s, pp) ==
    /\ pc = "idle"
    /\ op' = name
    /\ language_pattern' = pattern
    /\ input_string' = s
    /\ p' = pp
    /\ next_index' = 1
    /\ oracle_calls' = 0
    /\ examined' = 0
    /\ preempted' = FALSE
    /\ UNCHANGED <<self_results, suspended>>

(***************************************************************************)
(* apply_regular_pumping_lemma                                             *)
(***************************************************************************)
\* Entry to the head of the for loop: the result dict, the length check and
\* the call of the generator.
apply_regular_pumping_lemma(pattern, s, pp) ==
    /\ Enter("apply_regular_pumping_lemma", pattern, s, pp)
    /\ LET n == Len(s)
       IN  IF RegularTooShort(n, pp)
           THEN /\ result' = WithError(NewResult(s, pp), ErrorText(n, pp))
                /\ decompositions' = << >>
                /\ generator_calls' = 0
                /\ pc' = "done"
           ELSE /\ result' = NewResult(s, pp)
                /\ decompositions' = _generate_regular_decompositions(s, pp)
                /\ generator_calls' = 1
                /\ pc' = "loop"

\* Mutant: the loop is a while loop whose index is never advanced.
RegularLoopBodyNoAdvance ==
    /\ pc = "loop"
    /\ op = "apply_regular_pumping_lemma"
    /\ next_index <= Len(decompositions)
    /\ LET decomp == decompositions[next_index]
           iterations == RegularIterations(decomp, language_pattern)
           stored == StoreRegular(result, decomp, iterations,
                                  ValidForAllI(iterations))
       IN  /\ result' = stored.result
           /\ oracle_calls' = oracle_calls + Len(iterations)
           /\ examined' = examined + 1
           /\ IF stored.break
              THEN pc' = "done" /\ UNCHANGED next_index
              ELSE pc' = "loop" /\ UNCHANGED next_index
    /\ UNCHANGED <<op, language_pattern, input_string, p, decompositions,
                   self_results, generator_calls, suspended, preempted>>

\* One pass of the for loop over the candidates.
RegularLoopBody ==
    /\ pc = "loop"
    /\ op = "apply_regular_pumping_lemma"
    /\ next_index <= Len(decompositions)
    /\ LET decomp == decompositions[next_index]
           iterations == RegularIterations(decomp, language_pattern)
           stored == StoreRegular(result, decomp, iterations,
                                  ValidForAllI(iterations))
       IN  /\ result' = stored.result
           /\ oracle_calls' = oracle_calls + Len(iterations)
           /\ examined' = examined + 1
           /\ IF stored.break
              THEN pc' = "done" /\ UNCHANGED next_index
              ELSE pc' = "loop" /\ next_index' = next_index + 1
    /\ UNCHANGED <<op, language_pattern, input_string, p, decompositions,
                   self_results, generator_calls, suspended, preempted>>

\* The for loop is exhausted: return result.
RegularReturn ==
    /\ pc = "loop"
    /\ op = "apply_regular_pumping_lemma"
    /\ next_index > Len(decompositions)
    /\ pc' = "done"
    /\ UNCHANGED <<op, language_pattern, input_string, p, decompositions,
                   next_index, result, self_results, generator_calls,
                   oracle_calls, examined, suspended, preempted>>

(***************************************************************************)
(* apply_cfl_pumping_lemma                                                 *)
(***************************************************************************)
apply_cfl_pumping_lemma(pattern, s, pp) ==
    /\ Enter("apply_cfl_pumping_lemma", pattern, s, pp)
    /\ LET n == Len(s)
       IN  IF CflTooShort(n, pp)
           THEN /\ result' = WithError(NewResult(s, pp), ErrorText(n, pp))
                /\ decompositions' = << >>
                /\ generator_calls' = 0
                /\ pc' = "done"
           ELSE /\ result' = NewResult(s, pp)
                /\ decompositions' = _generate_cfl_decompositions(s, pp)
                /\ generator_calls' = 1
                /\ pc' = "loop"

CflLoopBody ==
    /\ pc = "loop"
    /\ op = "apply_cfl_pumping_lemma"
    /\ next_index <= Len(decompositions)
    /\ LET decomp == decompositions[next_index]
           iterations == CflIterations(decomp, language_pattern)
           stored == StoreCfl(result, decomp, iterations,
                              ValidForAllI(iterations))
       IN  /\ result' = stored.result
           /\ oracle_calls' = oracle_calls + Len(iterations)
           /\ examined' = examined + 1
           /\ IF stored.break
              THEN pc' = "done" /\ UNCHANGED next_index
              ELSE pc' = "loop" /\ next_index' = next_index + 1
    /\ UNCHANGED <<op, language_pattern, input_string, p, decompositions,
                   self_results, generator_calls, suspended, preempted>>

CflReturn ==
    /\ pc = "loop"
    /\ op = "apply_cfl_pumping_lemma"
    /\ next_index > Len(decompositions)
    /\ pc' = "done"
    /\ UNCHANGED <<op, language_pattern, input_string, p, decompositions,
                   next_index, result, self_results, generator_calls,
                   oracle_calls, examined, suspended, preempted>>

(***************************************************************************)
(* The generators called on their own: decompositions holds what they      *)
(* return.                                                                 *)
(***************************************************************************)
GenerateRegular(s, pp) ==
    /\ Enter("_generate_regular_decompositions", "", s, pp)
    /\ decompositions' = _generate_regular_decompositions(s, pp)
    /\ generator_calls' = 1
    /\ result' = << >>
    /\ pc' = "done"

GenerateCfl(s, pp) ==
    /\ Enter("_generate_cfl_decompositions", "", s, pp)
    /\ decompositions' = _generate_cfl_decompositions(s, pp)
    /\ generator_calls' = 1
    /\ result' = << >>
    /\ pc' = "done"

(***************************************************************************)
(* The oracle called on its own: result holds the boolean it returns.      *)
(***************************************************************************)
CheckMembership(s, pattern) ==
    /\ pc = "idle"
    /\ op' = "is_string_in_language"
    /\ language_pattern' = pattern
    /\ input_string' = s
    /\ p' = 0
    /\ next_index' = 1
    /\ examined' = 0
    /\ preempted' = FALSE
    /\ decompositions' = << >>
    /\ generator_calls' = 0
    /\ oracle_calls' = 1
    /\ result' = is_string_in_language(s, pattern)
    /\ pc' = "done"
    /\ UNCHANGED <<self_results, suspended>>

\* The caller has consumed what the call returned; everything of the call is
\* dropped and the engine is as it was constructed.
Discard ==
    /\ pc = "done"
    /\ pc' = "idle"
    /\ op' = ""
    /\ language_pattern' = ""
    /\ input_string' = << >>
    /\ p' = 0
    /\ decompositions' = << >>
    /\ next_index' = 1
    /\ result' = << >>
    /\ generator_calls' = 0
    /\ oracle_calls' = 0
    /\ examined' = 0
    /\ preempted' = FALSE
    /\ UNCHANGED <<self_results, suspended>>

(***************************************************************************)
(* The specification: any call, on any pattern, string and pumping length. *)
(***************************************************************************)
CallApplyRegular ==
    /\ pc = "idle"
    /\ \E pattern \in Patterns, s \in Strings, pp \in PValues :
            apply_regular_pumping_lemma(pattern, s, pp)

CallApplyCfl ==
    /\ pc = "idle"
    /\ \E pattern \in Patterns, s \in Strings, pp \in PValues :
            apply_cfl_pumping_lemma(pattern, s, pp)

CallGenerateRegular ==
    /\ pc = "idle"
    /\ \E s \in Strings, pp \in PValues : GenerateRegular(s, pp)

CallGenerateCfl ==
    /\ pc = "idle"
    /\ \E s \in Strings, pp \in PValues : GenerateCfl(s, pp)

CallOracle ==
    /\ pc = "idle"
    /\ \E pattern \in OracleCallPatterns, s \in OracleStrings :
            CheckMembership(s, pattern)

Next ==
    \/ CallApplyRegular
    \/ RegularLoopBody
    \/ RegularReturn
    \/ CallApplyCfl
    \/ CflLoopBody
    \/ CflReturn
    \/ CallGenerateRegular
    \/ CallGenerateCfl
    \/ CallOracle
    \/ Discard

Spec == Init /\ [][Next]_vars

(***************************************************************************)
(* The two engine functions under the scheduling of the interpreter: a     *)
(* call, once made, runs on, the next pass of the for loop and the return  *)
(* that follows the loop are executed without waiting for anything.  The   *)
(* patterns are one that stops the search at once, one that never does and *)
(* one the oracle does not know.                                           *)
(***************************************************************************)
FairPatterns == {"a*b*", "a^n b^n", "balanced_parentheses"}

CallApplyRegularFair ==
    /\ pc = "idle"
    /\ \E pattern \in FairPatterns, s \in Strings, pp \in PValues :
            apply_regular_pumping_lemma(pattern, s, pp)

CallApplyCflFair ==
    /\ pc = "idle"
    /\ \E pattern \in FairPatterns, s \in Strings, pp \in PValues :
            apply_cfl_pumping_lemma(pattern, s, pp)

\* The steps of a call in progress; at most one of them is enabled.
Step ==
    \/ RegularLoopBody
    \/ RegularReturn
    \/ CflLoopBody
    \/ CflReturn

NextFair ==
    \/ CallApplyRegularFair
    \/ CallApplyCflFair
    \/ Step
    \/ Discard

SpecFair == Init /\ [][NextFair]_vars /\ WF_vars(Step)

(***************************************************************************)
(* The CFL path alone, on the longer strings over {a, b}.                  *)
(***************************************************************************)
CallApplyCflLong ==
    /\ pc = "idle"
    /\ \E pattern \in Patterns, s \in CflStrings, pp \in CflPValues :
            apply_cfl_pumping_lemma(pattern, s, pp)

NextCfl ==
    \/ CallApplyCflLong
    \/ CflLoopBody
    \/ CflReturn
    \/ Discard

SpecCfl == Init /\ [][NextCfl]_vars

(***************************************************************************)
(* Two calls on one engine, interleaved at the steps of their for loops,   *)
(* as an embedding caller makes them from two threads.  The variables of   *)
(* the state are the locals of the call that runs; suspended holds the     *)
(* locals of the other one.  self.results is the engine's and is shared.   *)
(***************************************************************************)
\* Longest string handed to the engine by the two interleaved callers.
MaxPairLen == 2

PairStrings == UNION {StringsOver({"a", "b"}, n) : n \in 0..MaxPairLen}
PairPValues == 1..(MaxPairLen + 1)
PairPatterns == {"a^n b^n", "(ab)*"}

\* The locals of the running call, as they are when it is suspended.
Frame ==
    [pc |-> pc, op |-> op, language_pattern |-> language_pattern,
     input_string |-> input_string, p |-> p,
     decompositions |-> decompositions, next_index |-> next_index,
     result |-> result, generator_calls |-> generator_calls,
     oracle_calls |-> oracle_calls, examined |-> examined,
     preempted |-> (preempted \/ pc = "loop")]

\* Mutant: the position of the for loop is an attribute of the engine
\* (self.index), so a resumed call goes on from the position of whichever
\* call moved it last.
ResumeSharedIndex(frame) ==
    /\ pc' = frame.pc
    /\ op' = frame.op
    /\ language_pattern' = frame.language_pattern
    /\ input_string' = frame.input_string
    /\ p' = frame.p
    /\ decompositions' = frame.decompositions
    /\ UNCHANGED next_index
    /\ result' = frame.result
    /\ generator_calls' = frame.generator_calls
    /\ oracle_calls' = frame.oracle_calls
    /\ examined' = frame.examined
    /\ preempted' = frame.preempted

\* Mutant: the result dict is an attribute of the engine (self.result), so
\* a resumed call goes on with the dict of whichever call assigned it last.
ResumeSharedResult(frame) ==
    /\ pc' = frame.pc
    /\ op' = frame.op
    /\ language_pattern' = frame.language_pattern
    /\ input_string' = frame.input_string
    /\ p' = frame.p
    /\ decompositions' = frame.decompositions
    /\ next_index' = frame.next_index
    /\ UNCHANGED result
    /\ generator_calls' = frame.generator_calls
    /\ oracle_calls' = frame.oracle_calls
    /\ examined' = frame.examined
    /\ preempted' = frame.preempted

\* A call goes on with its own locals: result, decompositions and the
\* position of its for loop are names of the function's frame.
Resume(frame) ==
    /\ pc' = frame.pc
    /\ op' = frame.op
    /\ language_pattern' = frame.language_pattern
    /\ input_string' = frame.input_string
    /\ p' = frame.p
    /\ decompositions' = frame.decompositions
    /\ next_index' = frame.next_index
    /\ result' = frame.result
    /\ generator_calls' = frame.generator_calls
    /\ oracle_calls' = frame.oracle_calls
    /\ examined' = frame.examined
    /\ preempted' = frame.preempted

\* The scheduler takes the running call off and puts the other one on, at
\* any point between two steps.
Switch ==
    /\ suspended' = Frame
    /\ Resume(suspended)
    /\ UNCHANGED self_results

CallApplyRegularPair ==
    /\ pc = "idle"
    /\ \E pattern \in PairPatterns, s \in PairStrings, pp \in PairPValues :
            apply_regular_pumping_lemma(pattern, s, pp)

CallApplyCflPair ==
    /\ pc = "idle"
    /\ \E pattern \in PairPatterns, s \in PairStrings, pp \in PairPValues :
            apply_cfl_pumping_lemma(pattern, s, pp)

NextPair ==
    \/ CallApplyRegularPair
    \/ RegularLoopBody
    \/ RegularReturn
    \/ CallApplyCflPair
    \/ CflLoopBody
    \/ CflReturn
    \/ Switch
    \/ Discard

SpecPair == Init /\ [][NextPair]_vars

(***************************************************************************)
(* Vocabulary of the properties.                                           *)
(***************************************************************************)
EngineOps == {"apply_regular_pumping_lemma", "apply_cfl_pumping_lemma"}
IsRegular == op = "apply_regular_pumping_lemma"
IsCfl == op = "apply_cfl_pumping_lemma"

\* A verdict has been returned by one of the two engine functions.
Returned == pc = "done" /\ op \in EngineOps

\* The fixed repetition counts and the pumped string of a candidate, as the
\* specification states them.
TestCounts == IF IsRegular THEN {0, 1, 2, 3, 5} ELSE {0, 1, 2, 3}
Pumped(d, i) ==
    IF IsRegular
    THEN d.x \o Repeat(d.y, i) \o d.z
    ELSE d.u \o Repeat(d.v, i) \o d.w \o Repeat(d.x, i) \o d.y

\* Candidate k of the generator's list keeps every tested pumped string in
\* the language.
CandidatePasses(k) ==
    \A i \in TestCounts :
        is_string_in_language(Pumped(decompositions[k], i), language_pattern)

PossiblyLabel == IF IsRegular THEN "Possibly Regular" ELSE "Possibly Context-Free"
NotLabel == IF IsRegular THEN "Not Regular" ELSE "Not Context-Free"

\* Every record of the verdict is a member.
AllRecordsMembers ==
    \A k \in DOMAIN result.iterations : result.iterations[k].in_language

(***************************************************************************)
(* C1. Early exit on first success: a verdict with lemma_holds = true      *)
(* reports the earliest candidate, in generator order, all of whose pumped *)
(* strings are members; every candidate before it has a non-member pumped  *)
(* string; none after it is examined (the call returns as soon as          *)
(* lemma_holds is set); and language_type is "Possibly Regular" or         *)
(* "Possibly Context-Free", also when an earlier failing candidate had     *)
(* been stored as the fallback.                                            *)
(***************************************************************************)
C1_EarlyExitOnFirstSuccess ==
    (op \in EngineOps /\ result.lemma_holds) =>
        /\ pc = "done"
        /\ \E k \in DOMAIN decompositions :
            /\ CandidatePasses(k)
            /\ \A j \in 1..(k - 1) : ~CandidatePasses(j)
            /\ result.decomposition = decompositions[k]
            /\ examined = k
            /\ result.language_type = PossiblyLabel

\* A success found after a failing candidate had been stored.
C1_Witness ==
    /\ Returned
    /\ result.lemma_holds
    /\ examined > 1
    /\ ~CandidatePasses(1)

(***************************************************************************)
(* C2. First-failure fallback: with a non-empty candidate list none of     *)
(* whose candidates passes, the verdict has lemma_holds = false, "Not      *)
(* Regular" or "Not Context-Free", and the decomposition and iterations of *)
(* the first candidate of the generator.                                   *)
(***************************************************************************)
C2_FirstFailureFallback ==
    (/\ Returned
     /\ decompositions # << >>
     /\ \A k \in DOMAIN decompositions : ~CandidatePasses(k)) =>
        /\ result.lemma_holds = FALSE
        /\ result.language_type = NotLabel
        /\ result.decomposition = decompositions[1]
        /\ Len(result.iterations) = Cardinality(TestCounts)
        /\ \A k \in DOMAIN result.iterations :
            LET r == result.iterations[k]
            IN  /\ r.i \in TestCounts
                /\ r.pumped_string = Pumped(decompositions[1], r.i)
                /\ r.in_language =
                       is_string_in_language(r.pumped_string, language_pattern)
        /\ examined = Len(decompositions)

\* Several different candidates were examined and all failed.
C2_Witness ==
    /\ Returned
    /\ Len(decompositions) > 1
    /\ decompositions[Len(decompositions)] # decompositions[1]
    /\ \A k \in DOMAIN decompositions : ~CandidatePasses(k)

(***************************************************************************)
(* C3. As claimed: for every returned verdict, lemma_holds is true iff     *)
(* every iteration record of the verdict has in_language = true.  This     *)
(* fails on a verdict without records (the error verdict, the verdict of   *)
(* an empty candidate list): no record is a non-member, yet lemma_holds is *)
(* false.                                                                  *)
(***************************************************************************)
C3_HoldsIffAllMembers_Claimed ==
    Returned => (result.lemma_holds <=> AllRecordsMembers)

(***************************************************************************)
(* C3, amended. For every returned verdict, lemma_holds is true iff the    *)
(* verdict has at least one iteration record and every record has          *)
(* in_language = true; a verdict without records has lemma_holds = false.  *)
(***************************************************************************)
C3_HoldsIffSomeAndAllMembers ==
    Returned =>
        (result.lemma_holds <=>
            (result.iterations # << >> /\ AllRecordsMembers))

\* A CFL success found after a failing candidate: the records are the
\* passing candidate's.
C3_Witness ==
    /\ Returned
    /\ IsCfl
    /\ result.lemma_holds
    /\ examined > 1
    /\ result.iterations # << >>

(***************************************************************************)
(* C4. Precondition error: the verdict carries an error field exactly when *)
(* |s| < p; then the error text is non-empty, iterations and decomposition *)
(* are empty, lemma_holds is false, language_type is "Unknown" and no      *)
(* generator or oracle call was made.  A verdict is returned, nothing is   *)
(* raised.                                                                 *)
(***************************************************************************)
C4_PreconditionError ==
    Returned =>
        /\ ("error" \in DOMAIN result) <=> (Len(input_string) < p)
        /\ (Len(input_string) < p) =>
            /\ result.error # << >>
            /\ result.iterations = << >>
            /\ result.decomposition = << >>
            /\ result.lemma_holds = FALSE
            /\ result.language_type = "Unknown"
            /\ generator_calls = 0
            /\ oracle_calls = 0
            /\ examined = 0

\* A call with a string shorter than the pumping length has returned.
C4_Witness ==
    /\ Returned
    /\ Len(input_string) < p
    /\ "error" \in DOMAIN result

(***************************************************************************)
(* Vocabulary of the generator properties: the candidate list in           *)
(* decompositions is what the generator returned for (input_string, p),    *)
(* called on its own or by the engine.                                     *)
(***************************************************************************)
RegularGenerated ==
    /\ generator_calls = 1
    /\ op \in {"_generate_regular_decompositions", "apply_regular_pumping_lemma"}
CflGenerated ==
    /\ generator_calls = 1
    /\ op \in {"_generate_cfl_decompositions", "apply_cfl_pumping_lemma"}

Max(a, b) == IF a >= b THEN a ELSE b

(***************************************************************************)
(* C5. Regular decomposition invariant: every (x, y, z) returned by        *)
(* _generate_regular_decompositions(s, p) has x + y + z = s, |y| > 0 and   *)
(* |x| + |y| <= p.                                                         *)
(***************************************************************************)
C5_RegularDecompositionInvariant ==
    RegularGenerated =>
        \A k \in DOMAIN decompositions :
            LET d == decompositions[k]
            IN  /\ d.x \o d.y \o d.z = input_string
                /\ Len(d.y) > 0
                /\ Len(d.x) + Len(d.y) <= p

\* The generator, called on its own with p beyond the string's length, has
\* returned candidates with a non-empty x and a non-empty z among them.
C5_Witness ==
    /\ pc = "done"
    /\ op = "_generate_regular_decompositions"
    /\ p > Len(input_string)
    /\ \E k \in DOMAIN decompositions :
        decompositions[k].x # << >> /\ decompositions[k].z # << >>

(***************************************************************************)
(* C6. CFL decomposition invariant: every (u, v, w, x, y) returned by      *)
(* _generate_cfl_decompositions(s, p) has u + v + w + x + y = s,           *)
(* |v| + |x| > 0 and |v| + |w| + |x| <= p, and at most 10 are returned.    *)
(***************************************************************************)
C6_CflDecompositionInvariant ==
    CflGenerated =>
        /\ Len(decompositions) <= 10
        /\ \A k \in DOMAIN decompositions :
            LET d == decompositions[k]
            IN  /\ d.u \o d.v \o d.w \o d.x \o d.y = input_string
                /\ Len(d.v) + Len(d.x) > 0
                /\ Len(d.v) + Len(d.w) + Len(d.x) <= p

\* The generator has returned 10 candidates where its loops built more.
C6_Witness ==
    /\ pc = "done"
    /\ op = "_generate_cfl_decompositions"
    /\ Len(decompositions) = 10
    /\ Len(CflEnumeration(input_string, p)) > 10

(***************************************************************************)
(* C7. Regular generator completeness and order: the list holds every      *)
(* split of s with |y| > 0 and |x| + |y| <= p exactly once, one per pair   *)
(* (split_point, y_length) with 1 <= split_point <= min(p, |s|) and        *)
(* 1 <= y_length <= split_point, m(m+1)/2 of them for m = min(p, |s|)      *)
(* (none when that is negative), by ascending split_point and within it    *)
(* ascending y_length, with x = s[0 : split_point - y_length],             *)
(* y = s[split_point - y_length : split_point], z = s[split_point :].      *)
(***************************************************************************)
C7_RegularGeneratorCompleteAndOrdered ==
    RegularGenerated =>
        LET s == input_string
            n == Len(s)
            m == Max(0, Min(p, n))
            Cuts == {c \in (0..n) \X (1..n) : c[1] < c[2] /\ c[2] <= p}
            Splits ==
                {<<SubSeq(s, 1, c[1]), SubSeq(s, c[1] + 1, c[2]),
                   SubSeq(s, c[2] + 1, n)>> : c \in Cuts}
            Returned3 ==
                {<<decompositions[k].x, decompositions[k].y, decompositions[k].z>> :
                    k \in DOMAIN decompositions}
        IN  /\ Len(decompositions) = (m * (m + 1)) \div 2
            /\ Returned3 = Splits
            /\ Cardinality(Cuts) = Len(decompositions)
            /\ \A split_point \in 1..m :
                \A y_length \in 1..split_point :
                    LET d == decompositions[
                                 (split_point * (split_point - 1)) \div 2 + y_length]
                    IN  /\ d.x = SubSeq(s, 1, split_point - y_length)
                        /\ d.y = SubSeq(s, split_point - y_length + 1, split_point)
                        /\ d.z = SubSeq(s, split_point + 1, n)

\* The generator has returned the six splits of a string longer than p = 3.
C7_Witness ==
    /\ pc = "done"
    /\ op = "_generate_regular_decompositions"
    /\ p = 3
    /\ Len(input_string) > p
    /\ Len(decompositions) = 6
    /\ decompositions[6].x = << >>
    /\ Len(decompositions[6].y) = p

(***************************************************************************)
(* C8. CFL generator order and truncation: the list is the first           *)
(* min(10, N) elements of the enumeration of the N candidates by ascending *)
(* window start (0 <= start < |s|), then window end (start < end <=        *)
(* min(start + p, |s|)), then v-boundary (1 <= v_end < window length),     *)
(* then x-boundary (v_end <= x_start < window length), with u = s[0:start] *)
(* and y = s[end:]: a prefix of that order, never another subset.          *)
(***************************************************************************)
C8_CflGeneratorPrefixOfCanonicalOrder ==
    (pc = "done" /\ op = "_generate_cfl_decompositions") =>
        LET s == input_string
            n == Len(s)
            Windows ==
                {t \in (0..(n - 1)) \X (1..n) \X (1..n) \X (1..n) :
                    /\ t[1] < t[2]
                    /\ t[2] <= Min(t[1] + p, n)
                    /\ t[3] < t[2] - t[1]
                    /\ t[3] <= t[4]
                    /\ t[4] < t[2] - t[1]}
            Before(a, b) ==
                \E k \in 1..4 : a[k] < b[k] /\ \A j \in 1..(k - 1) : a[j] = b[j]
            Position(t) == 1 + Cardinality({a \in Windows : Before(a, t)})
        IN  /\ Len(decompositions) = Min(10, Cardinality(Windows))
            /\ \A t \in Windows :
                Position(t) <= 10 =>
                    LET d == decompositions[Position(t)]
                    IN  /\ d.u = SubSeq(s, 1, t[1])
                        /\ d.v = SubSeq(s, t[1] + 1, t[1] + t[3])
                        /\ d.w = SubSeq(s, t[1] + t[3] + 1, t[1] + t[4])
                        /\ d.x = SubSeq(s, t[1] + t[4] + 1, t[2])
                        /\ d.y = SubSeq(s, t[2] + 1, n)

\* The generator has cut an enumeration of more than 10 candidates whose
\* last candidate differs from every one returned.
C8_Witness ==
    /\ pc = "done"
    /\ op = "_generate_cfl_decompositions"
    /\ LET all == CflEnumeration(input_string, p)
       IN  /\ Len(all) > 10
           /\ \A k \in DOMAIN decompositions : decompositions[k] # all[Len(all)]

(***************************************************************************)
(* C9. Iteration record structure: a verdict with records has exactly 5,   *)
(* for i = 0, 1, 2, 3, 5 in that order (regular), or exactly 4, for        *)
(* i = 0, 1, 2, 3 (CFL), also when an early record is a non-member; each   *)
(* record has pumped_string = x + y^i + z, or u + v^i + w + x^i + y with   *)
(* the same i, in_language the oracle's answer for that string under the   *)
(* pattern, and parts the segments of the reported decomposition.          *)
(***************************************************************************)
C9_IterationRecordStructure ==
    (Returned /\ result.iterations # << >>) =>
        LET counts == IF IsRegular THEN <<0, 1, 2, 3, 5>> ELSE <<0, 1, 2, 3>>
            d == result.decomposition
        IN  /\ Len(result.iterations) = Len(counts)
            /\ \A k \in DOMAIN result.iterations :
                LET r == result.iterations[k]
                IN  /\ r.i = counts[k]
                    /\ r.pumped_string = Pumped(d, counts[k])
                    /\ r.in_language =
                           is_string_in_language(r.pumped_string, language_pattern)
                    /\ IF IsRegular
                       THEN r.parts = [x |-> d.x, y |-> d.y, z |-> d.z,
                                       y_repetitions |-> counts[k]]
                       ELSE r.parts = [u |-> d.u, v |-> d.v, w |-> d.w,
                                       x |-> d.x, y |-> d.y,
                                       v_repetitions |-> counts[k],
                                       x_repetitions |-> counts[k]]

\* A regular verdict whose record for i = 0 is a non-member and whose record
\* for i = 1 is a member.
C9_Witness ==
    /\ Returned
    /\ IsRegular
    /\ result.iterations # << >>
    /\ ~result.iterations[1].in_language
    /\ result.iterations[2].in_language

(***************************************************************************)
(* C10. No-candidates degenerate verdict: with |s| >= p and an empty       *)
(* candidate list the engine returns a verdict with iterations = [], an    *)
(* empty decomposition, lemma_holds = false, language_type "Unknown" and   *)
(* no error field; the list is empty on the regular path whenever p <= 0   *)
(* and on the CFL path whenever p <= 1.                                    *)
(***************************************************************************)
C10_NoCandidatesDegenerateVerdict ==
    (Returned /\ Len(input_string) >= p) =>
        /\ ((IsRegular /\ p <= 0) \/ (IsCfl /\ p <= 1)) => decompositions = << >>
        /\ decompositions = << >> =>
            /\ result.iterations = << >>
            /\ result.decomposition = << >>
            /\ result.lemma_holds = FALSE
            /\ result.language_type = "Unknown"
            /\ "error" \notin DOMAIN result
            /\ generator_calls = 1
            /\ examined = 0

\* The regular path has returned for p = 0 and a non-empty string.
C10_Witness ==
    /\ Returned
    /\ IsRegular
    /\ p = 0
    /\ input_string # << >>
    /\ decompositions = << >>

(***************************************************************************)
(* C11. CFL truncation loses passing candidates: apply_cfl_pumping_lemma   *)
(* returns lemma_holds = true only if one of the first 10 candidates of    *)
(* the canonical ordering passes every i in {0, 1, 2, 3}; when there are   *)
(* candidates and none of the first 10 passes, the verdict is "Not         *)
(* Context-Free" with the first candidate, also when a candidate at        *)
(* position 11 or later passes every tested i.  (|s| >= p: the candidates  *)
(* are generated.)                                                         *)
(***************************************************************************)
\* The CFL candidate d keeps every tested pumped string in the language.
CflCandidatePasses(d) ==
    \A i \in {0, 1, 2, 3} :
        is_string_in_language(
            d.u \o Repeat(d.v, i) \o d.w \o Repeat(d.x, i) \o d.y,
            language_pattern)

C11_CflTruncationLosesPassingCandidates ==
    (Returned /\ IsCfl /\ Len(input_string) >= p) =>
        LET all == CflEnumeration(input_string, p)
            first == 1..Min(10, Len(all))
        IN  /\ result.lemma_holds => \E k \in first : CflCandidatePasses(all[k])
            /\ (all # << >> /\ \A k \in first : ~CflCandidatePasses(all[k])) =>
                /\ result.lemma_holds = FALSE
                /\ result.language_type = "Not Context-Free"
                /\ result.decomposition = all[1]
                /\ examined = Cardinality(first)

\* The claim's example: a^4 b^4 under a^n b^n is reported "Not Context-Free"
\* although a candidate beyond the tenth passes.
C11_Witness ==
    /\ Returned
    /\ IsCfl
    /\ language_pattern = "a^n b^n"
    /\ input_string = <<"a", "a", "a", "a", "b", "b", "b", "b">>
    /\ result.language_type = "Not Context-Free"
    /\ LET all == CflEnumeration(input_string, p)
       IN  /\ \A k \in 1..10 : ~CflCandidatePasses(all[k])
           /\ \E k \in 11..Len(all) : CflCandidatePasses(all[k])

(***************************************************************************)
(* Vocabulary of the oracle properties.                                    *)
(***************************************************************************)
\* The oracle, called on its own with the pattern, has returned.
OracleReturned(pattern) ==
    pc = "done" /\ op = "is_string_in_language" /\ language_pattern = pattern

\* s is c1^n1 c2^n2 c3^n3, given as the lengths of its blocks.
IsBlocks(s, c1, n1, c2, n2, c3, n3) ==
    /\ Len(s) = n1 + n2 + n3
    /\ \A k \in 1..Len(s) :
        s[k] = (IF k <= n1 THEN c1 ELSE IF k <= n1 + n2 THEN c2 ELSE c3)

(***************************************************************************)
(* C12. Oracle for a^n b^n over the alphabet {a, b}: true iff s = a^n b^n  *)
(* for some n >= 1; the empty string is rejected.                          *)
(***************************************************************************)
C12_AnBnOverAB ==
    (/\ OracleReturned("a^n b^n")
     /\ \A k \in DOMAIN input_string : input_string[k] \in {"a", "b"}) =>
        (result <=>
            \E n \in 1..Len(input_string) :
                IsBlocks(input_string, "a", n, "b", n, "b", 0))

\* The oracle has accepted a^3 b^3.
C12_Witness ==
    /\ OracleReturned("a^n b^n")
    /\ input_string = <<"a", "a", "a", "b", "b", "b">>
    /\ result = TRUE

(***************************************************************************)
(* C13. Oracle for a^n b^n on arbitrary input over {a, b, c}: if it        *)
(* returns true then no b occurs anywhere before an a and s has the shape  *)
(* a+b+ with equal counts of a and b.                                      *)
(***************************************************************************)
C13_AnBnAcceptsOnlyAPlusBPlus ==
    (OracleReturned("a^n b^n") /\ result = TRUE) =>
        /\ \A i \in DOMAIN input_string : \A j \in DOMAIN input_string :
            (i < j) => ~(input_string[i] = "b" /\ input_string[j] = "a")
        /\ \E n \in 1..Len(input_string) :
            IsBlocks(input_string, "a", n, "b", n, "b", 0)

(***************************************************************************)
(* C14. Oracle for a^n b^n c^n over {a, b, c}: true iff s = a^n b^n c^n    *)
(* for some n >= 1; the empty string is rejected.                          *)
(***************************************************************************)
C14_AnBnCn ==
    OracleReturned("a^n b^n c^n") =>
        (result <=>
            \E n \in 1..Len(input_string) :
                IsBlocks(input_string, "a", n, "b", n, "c", n))

\* The oracle has accepted a^2 b^2 c^2.
C14_Witness ==
    /\ OracleReturned("a^n b^n c^n")
    /\ input_string = <<"a", "a", "b", "b", "c", "c">>
    /\ result = TRUE

(***************************************************************************)
(* C15. Oracles for a^n b^m and a*b* are the same predicate: over          *)
(* {a, b, c} each returns true iff s is zero or more a's followed by zero  *)
(* or more b's (the empty string included), and the two agree on every s.  *)
(***************************************************************************)
C15_AStarBStarSamePredicate ==
    (pc = "done" /\ op = "is_string_in_language"
        /\ language_pattern \in {"a^n b^m", "a*b*"}) =>
        LET other == IF language_pattern = "a*b*" THEN "a^n b^m" ELSE "a*b*"
        IN  /\ result <=>
                \E n \in 0..Len(input_string) :
                    IsBlocks(input_string, "a", n, "b", Len(input_string) - n,
                             "b", 0)
            /\ result = is_string_in_language(input_string, other)

\* The oracle has accepted the empty string under a^n b^m.
C15_Witness ==
    /\ OracleReturned("a^n b^m")
    /\ input_string = << >>
    /\ result = TRUE

(***************************************************************************)
(* C16. Oracle for (ab)* over {a, b, c}: true iff s is k >= 0 copies of    *)
(* the block "ab"; the empty string is accepted.                           *)
(***************************************************************************)
C16_ABStar ==
    OracleReturned("(ab)*") =>
        (result <=>
            \E k \in 0..Len(input_string) :
                input_string = Repeat(<<"a", "b">>, k))

\* The oracle has accepted the empty string under (ab)*.
C16_Witness ==
    /\ OracleReturned("(ab)*")
    /\ input_string = << >>
    /\ result = TRUE

(***************************************************************************)
(* C17. Oracle for the eighth pattern, the strings with an even number of  *)
(* a's, over {a, b, c}: true iff every character is a or b and the number  *)
(* of a's is even; the empty string is accepted and a string with a c is   *)
(* rejected.                                                               *)
(***************************************************************************)
C17_EvenNumberOfAs ==
    OracleReturned("(b*ab*ab*)*") =>
        (result <=>
            /\ \A k \in DOMAIN input_string : input_string[k] # "c"
            /\ \E h \in 0..Len(input_string) :
                Cardinality({k \in DOMAIN input_string : input_string[k] = "a"})
                    = 2 * h)

\* The oracle has rejected a string with a c and no a.
C17_Witness ==
    /\ OracleReturned("(b*ab*ab*)*")
    /\ input_string = <<"b", "c", "b">>
    /\ result = FALSE

(***************************************************************************)
(* C18. Oracle for ww: true iff |s| is even and the first half equals the  *)
(* second half character for character; the empty string is accepted and   *)
(* strings of odd length are rejected.                                     *)
(***************************************************************************)
C18_WW ==
    OracleReturned("ww") =>
        (result <=>
            \E half \in 0..Len(input_string) :
                /\ Len(input_string) = 2 * half
                /\ \A k \in 1..half : input_string[k] = input_string[half + k])

\* The oracle has accepted abcabc, which is no palindrome.
C18_Witness ==
    /\ OracleReturned("ww")
    /\ input_string = <<"a", "b", "c", "a", "b", "c">>
    /\ result = TRUE

(***************************************************************************)
(* C19. Oracle for w w_reverse: true iff |s| is even and the first half    *)
(* equals the reverse of the second half, that is, s is a palindrome of    *)
(* even length; the empty string is accepted.                              *)
(***************************************************************************)
C19_WWReverse ==
    OracleReturned("w w_reverse") =>
        (result <=>
            \E half \in 0..Len(input_string) :
                /\ Len(input_string) = 2 * half
                /\ \A k \in 1..Len(input_string) :
                    input_string[k] = input_string[Len(input_string) + 1 - k])

\* The oracle has accepted abccba, whose halves differ.
C19_Witness ==
    /\ OracleReturned("w w_reverse")
    /\ input_string = <<"a", "b", "c", "c", "b", "a">>
    /\ result = TRUE

(***************************************************************************)
(* C20. Unrecognized pattern: for an identifier outside the eight oracle   *)
(* patterns the oracle returns false for every string; both engine paths   *)
(* never return lemma_holds = true for it, and return "Not Regular" or     *)
(* "Not Context-Free" with the first candidate whenever the candidate list *)
(* is non-empty.                                                           *)
(***************************************************************************)
C20_UnrecognizedPattern ==
    LET recognized ==
            language_pattern \in
                {"a^n b^n", "a^n b^m", "a*b*", "(ab)*", "a^n b^n c^n", "ww",
                 "w w_reverse", "(b*ab*ab*)*"}
    IN  /\ (pc = "done" /\ op = "is_string_in_language" /\ ~recognized) =>
                result = FALSE
        /\ (Returned /\ ~recognized) =>
            /\ result.lemma_holds = FALSE
            /\ \A k \in DOMAIN result.iterations :
                result.iterations[k].in_language = FALSE
            /\ decompositions # << >> =>
                /\ result.language_type = NotLabel
                /\ result.decomposition = decompositions[1]

\* The CFL path has returned for "balanced_parentheses" after examining
\* several candidates.
C20_Witness ==
    /\ Returned
    /\ IsCfl
    /\ language_pattern = "balanced_parentheses"
    /\ examined > 1
    /\ result.language_type = "Not Context-Free"

(***************************************************************************)
(* Vocabulary of the properties of two calls.                              *)
(***************************************************************************)
\* The second call's slot holds a verdict one of the two engine functions
\* has returned.
SuspendedReturned == suspended.pc = "done" /\ suspended.op \in EngineOps

\* The two slots hold calls of the same function with the same arguments.
SameCall ==
    /\ suspended.op = op
    /\ suspended.language_pattern = language_pattern
    /\ suspended.input_string = input_string
    /\ suspended.p = p

(***************************************************************************)
(* C21. Determinism: two calls of apply_regular_pumping_lemma (or of       *)
(* apply_cfl_pumping_lemma) with identical (pattern, s, p), made on one    *)
(* engine in any order relative to each other and to other calls, return   *)
(* identical verdicts: the same decomposition, the same iteration records, *)
(* the same lemma_holds and language_type.                                 *)
(***************************************************************************)
C21_Determinism ==
    (Returned /\ SuspendedReturned /\ SameCall) =>
        /\ result = suspended.result
        /\ result.decomposition = suspended.result.decomposition
        /\ result.iterations = suspended.result.iterations
        /\ result.lemma_holds = suspended.result.lemma_holds
        /\ result.language_type = suspended.result.language_type

\* Two calls with the same arguments have returned a success found at a
\* later candidate, one of them after having been suspended inside its loop
\* while other calls ran.
C21_Witness ==
    /\ Returned
    /\ SuspendedReturned
    /\ SameCall
    /\ result.lemma_holds
    /\ examined > 1
    /\ suspended.preempted
    /\ ~preempted

(***************************************************************************)
(* Vocabulary of the scenarios.                                            *)
(***************************************************************************)
\* The running call is name(pattern, s, pp).
IsCall(name, pattern, s, pp) ==
    /\ op = name
    /\ language_pattern = pattern
    /\ input_string = s
    /\ p = pp

\* The segments of a regular decomposition.
XYZ(d) == <<d.x, d.y, d.z>>

(***************************************************************************)
(* C22. Scenario 2: apply_regular_pumping_lemma("(ab)*", "abab", 2)        *)
(* returns lemma_holds = true, "Possibly Regular" and the decomposition    *)
(* x = "", y = "ab", z = "ab", whose pumped strings at i = 0, 1, 2, 3, 5   *)
(* are "ab", "abab", "ababab", "abababab", "abababababab", all members; it *)
(* is the third candidate examined, after (x = "", y = "a", z = "bab") and *)
(* (x = "a", y = "b", z = "ab") both fail.                                 *)
(***************************************************************************)
C22_Scenario2 ==
    (/\ pc = "done"
     /\ IsCall("apply_regular_pumping_lemma", "(ab)*",
               <<"a", "b", "a", "b">>, 2)) =>
        LET ab == <<"a", "b">>
        IN  /\ result.lemma_holds = TRUE
            /\ result.language_type = "Possibly Regular"
            /\ XYZ(result.decomposition) = << << >>, ab, ab >>
            /\ [k \in DOMAIN result.iterations |->
                    <<result.iterations[k].i,
                      result.iterations[k].pumped_string,
                      result.iterations[k].in_language>>]
               = << <<0, ab, TRUE>>,
                    <<1, Repeat(ab, 2), TRUE>>,
                    <<2, Repeat(ab, 3), TRUE>>,
                    <<3, Repeat(ab, 4), TRUE>>,
                    <<5, Repeat(ab, 6), TRUE>> >>
            /\ examined = 3
            /\ result.decomposition = decompositions[3]
            /\ XYZ(decompositions[1]) = << << >>, <<"a">>, <<"b", "a", "b">> >>
            /\ XYZ(decompositions[2]) = << <<"a">>, <<"b">>, ab >>
            /\ ~CandidatePasses(1)
            /\ ~CandidatePasses(2)

\* The call of the scenario has returned.
C22_Witness ==
    /\ pc = "done"
    /\ IsCall("apply_regular_pumping_lemma", "(ab)*", <<"a", "b", "a", "b">>, 2)
    /\ result.lemma_holds

(***************************************************************************)
(* C23. Scenario 1: apply_regular_pumping_lemma("a^n b^n", "aabb", 3)      *)
(* examines first the decomposition x = "", y = "a", z = "abb", whose      *)
(* i = 0 pumped string "abb" is recorded as not in the language; the final *)
(* verdict is the first candidate in generator order that passes all       *)
(* tested i if one exists, and otherwise this first candidate with         *)
(* lemma_holds = false and "Not Regular".                                  *)
(***************************************************************************)
C23_Scenario1 ==
    (/\ IsCall("apply_regular_pumping_lemma", "a^n b^n",
               <<"a", "a", "b", "b">>, 3)
     /\ examined >= 1) =>
        LET passing == {k \in DOMAIN decompositions : CandidatePasses(k)}
        IN  /\ XYZ(decompositions[1]) = << << >>, <<"a">>, <<"a", "b", "b">> >>
            /\ examined = 1 =>
                /\ result.decomposition = decompositions[1]
                /\ result.iterations[1].i = 0
                /\ result.iterations[1].pumped_string = <<"a", "b", "b">>
                /\ result.iterations[1].in_language = FALSE
            /\ pc = "done" =>
                IF passing # {}
                THEN /\ result.lemma_holds = TRUE
                     /\ \E k \in passing :
                            /\ \A j \in passing : k <= j
                            /\ result.decomposition = decompositions[k]
                ELSE /\ result.lemma_holds = FALSE
                     /\ result.language_type = "Not Regular"
                     /\ result.decomposition = decompositions[1]
                     /\ result.iterations[1].pumped_string = <<"a", "b", "b">>
                     /\ result.iterations[1].in_language = FALSE

\* The call of the scenario has returned, having examined all six candidates.
C23_Witness ==
    /\ pc = "done"
    /\ IsCall("apply_regular_pumping_lemma", "a^n b^n", <<"a", "a", "b", "b">>, 3)
    /\ examined = 6
    /\ result.language_type = "Not Regular"

(***************************************************************************)
(* C24. Scenario 3: for apply_cfl_pumping_lemma("a^n b^n c^n", "aabbcc",   *)
(* 5) the oracle accepts "aabbcc", rejects every pumped variant that is    *)
(* not of the shape a^n b^n c^n, and at least one examined decomposition   *)
(* records in_language = false at some i > 0.                              *)
(***************************************************************************)
C24_Scenario3 ==
    (/\ IsCall("apply_cfl_pumping_lemma", "a^n b^n c^n",
               <<"a", "a", "b", "b", "c", "c">>, 5)
     /\ examined >= 1) =>
        LET HasShape(s) ==
                \E n \in 1..Len(s) : IsBlocks(s, "a", n, "b", n, "c", n)
            Records(k) == CflIterations(decompositions[k], language_pattern)
        IN  /\ result.iterations[2].i = 1
            /\ result.iterations[2].pumped_string = input_string
            /\ result.iterations[2].in_language = TRUE
            /\ \A k \in 1..examined : \A j \in DOMAIN Records(k) :
                ~HasShape(Records(k)[j].pumped_string) =>
                    Records(k)[j].in_language = FALSE
            /\ \A j \in DOMAIN result.iterations :
                ~HasShape(result.iterations[j].pumped_string) =>
                    result.iterations[j].in_language = FALSE
            /\ \E j \in DOMAIN result.iterations :
                /\ result.iterations[j].i > 0
                /\ result.iterations[j].in_language = FALSE

\* The call of the scenario has returned after examining ten candidates.
C24_Witness ==
    /\ pc = "done"
    /\ IsCall("apply_cfl_pumping_lemma", "a^n b^n c^n",
              <<"a", "a", "b", "b", "c", "c">>, 5)
    /\ examined = 10
    /\ result.language_type = "Not Context-Free"

(***************************************************************************)
(* C25. Termination: for every (pattern, s, p), p <= 0 and unrecognized    *)
(* patterns included, each engine call terminates and returns a verdict    *)
(* mapping without raising, after examining at most m(m+1)/2 candidates    *)
(* with m = max(0, min(p, |s|)) on the regular path and at most 10         *)
(* candidates on the CFL path.                                             *)
(***************************************************************************)
\* The bound of the claim on the candidates the running call examines.
MaxExamined ==
    IF IsRegular
    THEN LET m == Max(0, Min(p, Len(input_string))) IN (m * (m + 1)) \div 2
    ELSE 10

\* The keys every verdict has.
VerdictKeys ==
    {"string", "pumping_length", "decomposition", "iterations", "lemma_holds",
     "language_type"}

C25_Termination ==
    /\ [](op \in EngineOps =>
            /\ pc \in {"loop", "done"}
            /\ examined <= MaxExamined
            /\ VerdictKeys \subseteq DOMAIN result
            /\ result.string = input_string
            /\ result.pumping_length = p)
    /\ (op \in EngineOps /\ pc = "loop") ~> Returned

\* A regular call with an unrecognized pattern has returned after examining
\* every one of its m(m+1)/2 candidates, m >= 3.
C25_Witness ==
    /\ Returned
    /\ IsRegular
    /\ language_pattern = "balanced_parentheses"
    /\ p >= 3
    /\ examined = MaxExamined
    /\ examined >= 6

(***************************************************************************)
(* C26. Independence of concurrent calls: when several engine calls on one *)
(* shared PumpingEngine are interleaved at any granularity of their loop   *)
(* steps, each call's verdict equals the verdict it returns when run       *)
(* alone: every call writes only its own result, candidate list and        *)
(* iteration list, and no call writes the shared state of the engine.      *)
(***************************************************************************)
\* The verdict of name(pattern, s, pp) run alone, as the search protocol
\* defines it: the error verdict when |s| < p, else the first candidate that
\* passes, else the first candidate, else the initial verdict.
VerdictAlone(name, pattern, s, pp) ==
    LET regular == name = "apply_regular_pumping_lemma"
        candidates ==
            IF regular THEN _generate_regular_decompositions(s, pp)
            ELSE _generate_cfl_decompositions(s, pp)
        Records(d) ==
            IF regular THEN RegularIterations(d, pattern)
            ELSE CflIterations(d, pattern)
        passing == {k \in DOMAIN candidates : ValidForAllI(Records(candidates[k]))}
        Chosen(k, holds, label) ==
            [NewResult(s, pp) EXCEPT !.decomposition = candidates[k],
                                     !.iterations = Records(candidates[k]),
                                     !.lemma_holds = holds,
                                     !.language_type = label]
    IN  IF Len(s) < pp
        THEN WithError(NewResult(s, pp), ErrorText(Len(s), pp))
        ELSE IF passing # {}
        THEN Chosen(CHOOSE k \in passing : \A j \in passing : k <= j, TRUE,
                    IF regular THEN "Possibly Regular"
                    ELSE "Possibly Context-Free")
        ELSE IF candidates # << >>
        THEN Chosen(1, FALSE,
                    IF regular THEN "Not Regular" ELSE "Not Context-Free")
        ELSE NewResult(s, pp)

C26_IndependenceOfConcurrentCalls ==
    /\ Returned =>
        result = VerdictAlone(op, language_pattern, input_string, p)
    /\ SuspendedReturned =>
        suspended.result =
            VerdictAlone(suspended.op, suspended.language_pattern,
                         suspended.input_string, suspended.p)
    /\ self_results = << >>

\* Two different calls, each suspended inside its for loop while the other
\* ran, have both returned, each after examining several candidates.
C26_Witness ==
    /\ Returned
    /\ SuspendedReturned
    /\ ~SameCall
    /\ preempted
    /\ suspended.preempted
    /\ examined > 1
    /\ suspended.examined > 1

(***************************************************************************)
(* C27. A non-member input never yields "lemma holds": for both lemma      *)
(* kinds and every candidate, the pumped string at i = 1 is the input      *)
(* string s, so if the oracle rejects s under the pattern then every       *)
(* candidate fails and the verdict has lemma_holds = false, with "Not      *)
(* Regular" or "Not Context-Free" and the first candidate when the         *)
(* candidate list is non-empty.                                            *)
(***************************************************************************)
C27_NonMemberNeverHolds ==
    (op \in EngineOps) =>
        /\ 1 \in TestCounts
        /\ \A k \in DOMAIN decompositions :
            Pumped(decompositions[k], 1) = input_string
        /\ ~is_string_in_language(input_string, language_pattern) =>
            /\ result.lemma_holds = FALSE
            /\ \A k \in DOMAIN decompositions : ~CandidatePasses(k)
            /\ \A k \in DOMAIN result.iterations :
                result.iterations[k].i = 1 =>
                    result.iterations[k].in_language = FALSE
            /\ (pc = "done" /\ decompositions # << >>) =>
                /\ result.language_type = NotLabel
                /\ result.decomposition = decompositions[1]

\* A CFL call on a non-member has returned after several candidates, and the
\* first candidate's pumped string at i = 0 is a member.
C27_Witness ==
    /\ Returned
    /\ IsCfl
    /\ ~is_string_in_language(input_string, language_pattern)
    /\ examined > 1
    /\ result.iterations[1].in_language
    /\ result.language_type = "Not Context-Free"

(***************************************************************************)
(* C28. The regular path never reports a^n b^n as possibly regular: for    *)
(* every member s = a^n b^n (n >= 1) and every p with 1 <= p <= |s|,       *)
(* apply_regular_pumping_lemma("a^n b^n", s, p) returns lemma_holds =      *)
(* false, "Not Regular" and the first candidate x = "", y = "a",           *)
(* z = s[1:], because every admissible y either changes the counts of a    *)
(* and b at i = 0 or introduces a "ba" at i = 2.                           *)
(***************************************************************************)
C28_AnBnNeverPossiblyRegular ==
    (/\ IsRegular
     /\ language_pattern = "a^n b^n"
     /\ \E n \in 1..Len(input_string) :
            IsBlocks(input_string, "a", n, "b", n, "b", 0)
     /\ 1 <= p
     /\ p <= Len(input_string)) =>
        /\ \A k \in DOMAIN decompositions :
            LET at0 == Pumped(decompositions[k], 0)
                at2 == Pumped(decompositions[k], 2)
            IN  \/ CountChar("a", at0) # CountChar("b", at0)
                \/ \E j \in 1..(Len(at2) - 1) :
                        at2[j] = "b" /\ at2[j + 1] = "a"
        /\ result.lemma_holds = FALSE
        /\ pc = "done" =>
            /\ result.language_type = "Not Regular"
            /\ XYZ(result.decomposition) = << << >>, <<"a">>, Tail(input_string) >>
            /\ examined = Len(decompositions)

\* The call on a^2 b^2 with p = 4 has returned after all ten candidates.
C28_Witness ==
    /\ Returned
    /\ IsRegular
    /\ language_pattern = "a^n b^n"
    /\ input_string = <<"a", "a", "b", "b">>
    /\ p = 4
    /\ examined = 10
    /\ result.language_type = "Not Regular"

(***************************************************************************)
(* C29. For the patterns a*b* and a^n b^m, for every member string s and   *)
(* every p with 1 <= p <= |s|, apply_regular_pumping_lemma stops at the    *)
(* very first candidate: the verdict has lemma_holds = true, "Possibly     *)
(* Regular" and the decomposition x = "", y = first character of s,        *)
(* z = rest of s, and no second candidate is examined.                     *)
(***************************************************************************)
C29_AStarBStarStopsAtFirstCandidate ==
    (/\ Returned
     /\ IsRegular
     /\ language_pattern \in {"a*b*", "a^n b^m"}
     /\ \E n \in 0..Len(input_string) :
            IsBlocks(input_string, "a", n, "b", Len(input_string) - n, "b", 0)
     /\ 1 <= p
     /\ p <= Len(input_string)) =>
        /\ result.lemma_holds = TRUE
        /\ result.language_type = "Possibly Regular"
        /\ XYZ(result.decomposition) =
               << << >>, <<input_string[1]>>, Tail(input_string) >>
        /\ examined = 1
        /\ oracle_calls = 5

\* The call on a^2 b^2 with p = 4 under a^n b^m has returned after one of
\* its ten candidates.
C29_Witness ==
    /\ Returned
    /\ IsRegular
    /\ language_pattern = "a^n b^m"
    /\ input_string = <<"a", "a", "b", "b">>
    /\ p = 4
    /\ Len(decompositions) = 10
    /\ examined = 1

(***************************************************************************)
(* C30. Every decomposition returned by _generate_cfl_decompositions has   *)
(* both v and x non-empty (|v| >= 1 and |x| >= 1, hence |vwx| >= 2), so    *)
(* splits with exactly one of v, x empty are never produced although they  *)
(* satisfy |v| + |x| > 0; the generator returns an empty list whenever     *)
(* p <= 1 or |s| <= 1; apply_cfl_pumping_lemma with p = 1 and |s| >= 1     *)
(* always returns the "Unknown" verdict with empty iterations; for p >= 2  *)
(* and |s| >= p the candidate list is non-empty and language_type is never *)
(* "Unknown".                                                              *)
(***************************************************************************)
C30_CflBothPumpedSegmentsNonEmpty ==
    /\ CflGenerated =>
        /\ \A k \in DOMAIN decompositions :
            LET d == decompositions[k]
            IN  /\ Len(d.v) >= 1
                /\ Len(d.x) >= 1
                /\ Len(d.v) + Len(d.w) + Len(d.x) >= 2
        /\ (p <= 1 \/ Len(input_string) <= 1) => decompositions = << >>
        /\ (p >= 2 /\ Len(input_string) >= p) => decompositions # << >>
    /\ (Returned /\ IsCfl /\ p = 1 /\ Len(input_string) >= 1) =>
        /\ result.language_type = "Unknown"
        /\ result.iterations = << >>
        /\ result.lemma_holds = FALSE
        /\ examined = 0
    /\ (Returned /\ IsCfl /\ p >= 2 /\ Len(input_string) >= p) =>
        /\ result.language_type # "Unknown"
        /\ result.iterations # << >>

\* The CFL path has returned "Unknown" for p = 1 and a string of several
\* characters, whose one-character windows have |v| + |x| > 0 in no split
\* the generator makes.
C30_Witness ==
    /\ Returned
    /\ IsCfl
    /\ p = 1
    /\ Len(input_string) >= 2
    /\ generator_calls = 1
    /\ decompositions = << >>
    /\ result.language_type = "Unknown"

====
